---------------------------- MODULE Spec2Model ----------------------------
(***************************************************************************)
(* A model of api/index.py: the LINE webhook bot that receives a book      *)
(* cover image, asks a vision model for a JSON record, and replies with a  *)
(* Flex card holding an Amazon search link.                                *)
(*                                                                         *)
(* Text is modelled as a sequence of characters.  A character is a TLA+    *)
(* string; a character that cannot be written in a TLA+ string literal is  *)
(* written as a name in angle brackets ("<backtick>", "<u3042>").          *)
(***************************************************************************)
EXTENDS Naturals, Sequences, FiniteSets, TLC

(***************************************************************************)
(* Bounds of the model.                                                    *)
(***************************************************************************)
\* The most events one webhook delivery carries.
MaxEvents == 2
\* The most pieces a model output of the cleanup specification is made of.
MaxPieces == 3
\* The longest search_keyword of the rendering specification.
MaxKeywordLen == 2

(***************************************************************************)
(* Characters.                                                             *)
(***************************************************************************)
BT == "<backtick>"
HIRAGANA_A == "<u3042>"
REPLACEMENT == "<ufffd>"
QUOTE_MARK == "\""

\* str.strip() with no argument removes these from both ends.
StripWhitespace == {" ", "\n", "\t", "\r"}

\* The whitespace json.loads skips between tokens.
JsonWhitespace == {" ", "\n", "\t", "\r"}

\* The code points of the characters of the keywords and of the bytes their
\* hexadecimal digits can spell.
CodePoint ==
    (" " :> 32) @@ ("#" :> 35) @@ ("%" :> 37) @@ ("&" :> 38) @@ ("+" :> 43)
    @@ ("/" :> 47) @@ ("2" :> 50) @@ ("=" :> 61) @@ ("?" :> 63) @@ ("T" :> 84)
    @@ (QUOTE_MARK :> 34) @@ (HIRAGANA_A :> 12354)

(***************************************************************************)
(* Model output cleanup: line 114,                                         *)
(*   response.text.replace("```json", "").replace("```", "").strip()       *)
(***************************************************************************)
FENCE == <<BT, BT, BT>>
FENCE_JSON == <<BT, BT, BT, "j", "s", "o", "n">>

\* The places where pat occurs in s.
Occurrences(s, pat) ==
    {i \in 1..(Len(s) + 1 - Len(pat)) : SubSeq(s, i, i + Len(pat) - 1) = pat}

Min(S) == CHOOSE i \in S : \A j \in S : i <= j
Max(S) == CHOOSE i \in S : \A j \in S : i >= j

\* str.replace(pat, ""): every non-overlapping occurrence, found left to right.
RECURSIVE Remove(_, _)
Remove(s, pat) ==
    IF Len(s) < Len(pat) \/ Occurrences(s, pat) = {} THEN s
    ELSE LET i == Min(Occurrences(s, pat))
         IN  SubSeq(s, 1, i - 1)
             \o Remove(SubSeq(s, i + Len(pat), Len(s)), pat)

\* The characters of s that are no whitespace to strip.
Inked(s) == {i \in 1..Len(s) : s[i] \notin StripWhitespace}

LStrip(s) == IF Inked(s) = {} THEN <<>> ELSE SubSeq(s, Min(Inked(s)), Len(s))

RStrip(s) == IF Inked(s) = {} THEN <<>> ELSE SubSeq(s, 1, Max(Inked(s)))

\* str.strip()
Strip(s) == RStrip(LStrip(s))

\* A slip in the order of the calls: strip() before the markers are removed.
CleanStripFirst(text) == Remove(Remove(Strip(text), FENCE_JSON), FENCE)

\* The cleanup of line 114.
Clean(text) == Strip(Remove(Remove(text, FENCE_JSON), FENCE))

\* The check of line 116 left out: every cleaned text goes to json.loads.
BraceCheckSkipped(text) == TRUE

\* "{" in response_text (line 116)
HasBrace(text) == \E i \in 1..Len(text) : text[i] = "{"

(***************************************************************************)
(* json.loads (line 118) on the texts the model can answer with: an object *)
(* whose keys and values are strings, whitespace between its tokens and    *)
(* nothing but whitespace around it.  Other JSON values (numbers, arrays,  *)
(* nested objects, \u escapes) are outside the alphabet of the inputs.     *)
(* The result is [ok, value]: ok = FALSE stands for json.JSONDecodeError.  *)
(* A dict is a function from its keys to its values.                       *)
(***************************************************************************)
EmptyDict == <<>>

\* d[k] = v
Put(d, k, v) == [x \in (DOMAIN d) \cup {k} |-> IF x = k THEN v ELSE d[x]]

JSONDecodeError == [ok |-> FALSE, value |-> EmptyDict, next |-> 0]

\* The two-character escapes of a JSON string.
Escapes == (QUOTE_MARK :> QUOTE_MARK) @@ ("\\" :> "\\") @@ ("/" :> "/")
           @@ ("n" :> "\n") @@ ("t" :> "\t") @@ ("r" :> "\r")

\* Characters a JSON string may not hold unescaped (strict mode, the default).
ControlChars == {"\n", "\t", "\r"}

RECURSIVE SkipWs(_, _)
SkipWs(t, i) ==
    IF i <= Len(t) /\ t[i] \in JsonWhitespace THEN SkipWs(t, i + 1) ELSE i

\* The characters of a string from position j on, up to its closing quote.
RECURSIVE ScanChars(_, _, _)
ScanChars(t, j, acc) ==
    IF j > Len(t) THEN JSONDecodeError
    ELSE IF t[j] = QUOTE_MARK THEN [ok |-> TRUE, value |-> acc, next |-> j + 1]
    ELSE IF t[j] \in ControlChars THEN JSONDecodeError
    ELSE IF t[j] = "\\"
         THEN IF j + 1 <= Len(t) /\ t[j + 1] \in DOMAIN Escapes
              THEN ScanChars(t, j + 2, Append(acc, Escapes[t[j + 1]]))
              ELSE JSONDecodeError
    ELSE ScanChars(t, j + 1, Append(acc, t[j]))

\* A string whose opening quote is expected at position i.
ScanString(t, i) ==
    IF i <= Len(t) /\ t[i] = QUOTE_MARK
    THEN ScanChars(t, i + 1, <<>>)
    ELSE JSONDecodeError

\* The members of an object, the first key expected at position i; a key
\* given twice keeps its last value.
RECURSIVE ScanMembers(_, _, _)
ScanMembers(t, i, d) ==
    LET k == ScanString(t, i)
        c == SkipWs(t, k.next)
        v == ScanString(t, SkipWs(t, c + 1))
        e == SkipWs(t, v.next)
        d2 == Put(d, k.value, v.value)
    IN  IF ~k.ok THEN JSONDecodeError
        ELSE IF c > Len(t) \/ t[c] /= ":" THEN JSONDecodeError
        ELSE IF ~v.ok THEN JSONDecodeError
        ELSE IF e > Len(t) THEN JSONDecodeError
        ELSE IF t[e] = "}" THEN [ok |-> TRUE, value |-> d2, next |-> e + 1]
        ELSE IF t[e] = "," THEN ScanMembers(t, SkipWs(t, e + 1), d2)
        ELSE JSONDecodeError

json_loads(t) ==
    LET i == SkipWs(t, 1)
        j == SkipWs(t, i + 1)
        r == IF j <= Len(t) /\ t[j] = "}"
             THEN [ok |-> TRUE, value |-> EmptyDict, next |-> j + 1]
             ELSE ScanMembers(t, j, EmptyDict)
    IN  IF i > Len(t) \/ t[i] /= "{" THEN [ok |-> FALSE, value |-> EmptyDict]
        ELSE IF r.ok /\ SkipWs(t, r.next) > Len(t)
             THEN [ok |-> TRUE, value |-> r.value]
             ELSE [ok |-> FALSE, value |-> EmptyDict]

(***************************************************************************)
(* The AnalysisResult the prompt asks the model for (lines 103-110).       *)
(***************************************************************************)
title == <<"t", "i", "t", "l", "e">>
author == <<"a", "u", "t", "h", "o", "r">>
catchphrase == <<"c", "a", "t", "c", "h", "p", "h", "r", "a", "s", "e">>
description == <<"d", "e", "s", "c", "r", "i", "p", "t", "i", "o", "n">>
search_keyword ==
    <<"s", "e", "a", "r", "c", "h", "_", "k", "e", "y", "w", "o", "r", "d">>

\* The fields in the order the prompt lists them.
FieldOrder == <<title, author, catchphrase, description, search_keyword>>
Fields == {FieldOrder[i] : i \in 1..Len(FieldOrder)}

\* The value the model gives each field of the example book.
ExampleBook ==
    (title :> <<"T">>) @@ (author :> <<"A">>) @@ (catchphrase :> <<"C">>)
    @@ (description :> <<"D">>) @@ (search_keyword :> <<"T", " ", "A">>)

\* The model's JSON text of the fields `present` of the record d, from the
\* i-th field of the prompt's order on.
RECURSIVE Members(_, _, _, _)
Members(d, present, i, first) ==
    IF i > Len(FieldOrder) THEN <<>>
    ELSE IF FieldOrder[i] \notin present THEN Members(d, present, i + 1, first)
    ELSE (IF first THEN <<>> ELSE <<",", " ">>)
         \o <<QUOTE_MARK>> \o FieldOrder[i] \o <<QUOTE_MARK, ":", " ", QUOTE_MARK>>
         \o d[FieldOrder[i]] \o <<QUOTE_MARK>>
         \o Members(d, present, i + 1, FALSE)

ModelJSON(d, present) == <<"{">> \o Members(d, present, 1, TRUE) \o <<"}">>

(***************************************************************************)
(* urllib.parse.quote (line 125): the text is encoded as UTF-8 and every   *)
(* byte outside the safe set is written as %XX, upper-case hexadecimal.    *)
(***************************************************************************)
\* The characters quote never encodes.
ALWAYS_SAFE ==
    {"A", "B", "C", "D", "E", "F", "G", "H", "I", "J", "K", "L", "M",
     "N", "O", "P", "Q", "R", "S", "T", "U", "V", "W", "X", "Y", "Z",
     "a", "b", "c", "d", "e", "f", "g", "h", "i", "j", "k", "l", "m",
     "n", "o", "p", "q", "r", "s", "t", "u", "v", "w", "x", "y", "z",
     "0", "1", "2", "3", "4", "5", "6", "7", "8", "9", "_", ".", "-",
     "~"}

\* quote's default for its parameter safe.
DefaultSafe == {"/"}

HexDigits == <<"0", "1", "2", "3", "4", "5", "6", "7", "8", "9", "A", "B", "C", "D", "E", "F">>

Utf8(cp) ==
    IF cp < 128 THEN <<cp>>
    ELSE IF cp < 2048 THEN <<192 + (cp \div 64), 128 + (cp % 64)>>
    ELSE <<224 + (cp \div 4096), 128 + ((cp \div 64) % 64), 128 + (cp % 64)>>

PercentByte(b) == <<"%", HexDigits[(b \div 16) + 1], HexDigits[(b % 16) + 1]>>

RECURSIVE PercentBytes(_)
PercentBytes(bs) ==
    IF bs = <<>> THEN <<>> ELSE PercentByte(Head(bs)) \o PercentBytes(Tail(bs))

QuoteChar(c) ==
    IF c \in ALWAYS_SAFE \cup DefaultSafe THEN <<c>>
    ELSE PercentBytes(Utf8(CodePoint[c]))

\* The search keyword put into the link as it is, with no encoding.
QuoteNothing(s) == s

RECURSIVE quote(_)
quote(s) == IF s = <<>> THEN <<>> ELSE QuoteChar(Head(s)) \o quote(Tail(s))

(***************************************************************************)
(* create_flex_message (lines 123-169).  The result is [raised, message]:  *)
(* raised names the exception that leaves the function, "none" when it     *)
(* returns the FlexSendMessage.  The styling of the bubble is left out;    *)
(* every block that holds a value of the record or the link is kept.       *)
(***************************************************************************)
\* os.getenv's default (line 25)
AMAZON_ASSOCIATE_TAG == <<"d", "u", "m", "m", "y", "-", "t", "a", "g", "-", "2", "2">>

SEARCH_URL ==
    <<"h", "t", "t", "p", "s", ":", "/", "/", "w", "w", "w", ".",
      "a", "m", "a", "z", "o", "n", ".", "c", "o", ".", "j", "p",
      "/", "s", "?", "k", "=">>

TAG_PARAM == <<"&", "t", "a", "g", "=">>

\* The alt_text's prefix (line 169) and the quotation marks of line 155.
ALT_PREFIX == <<"<u3010>", "<u63d0>", "<u6848>", "<u3011>">>
LEFT_QUOTE == <<"<u201c>", " ">>
RIGHT_QUOTE == <<" ", "<u201d>">>

\* book_data and the argument of create_flex_message: None or a dict.
None == [kind |-> "None", items |-> EmptyDict]
Dict(d) == [kind |-> "dict", items |-> d]

\* The keys create_flex_message reads, in the order it reads them.
ReadOrder == <<search_keyword, title, catchphrase, description>>

\* The first key read that the dict does not hold (0: it holds them all).
FirstMissing(d) ==
    IF \A i \in 1..Len(ReadOrder) : ReadOrder[i] \in DOMAIN d THEN 0
    ELSE CHOOSE i \in 1..Len(ReadOrder) :
            /\ ReadOrder[i] \notin DOMAIN d
            /\ \A j \in 1..(i - 1) : ReadOrder[j] \in DOMAIN d

NoMessage == [alt_text |-> <<>>, contents |-> <<>>]

amazon_url(d) ==
    SEARCH_URL \o quote(d[search_keyword]) \o TAG_PARAM \o AMAZON_ASSOCIATE_TAG

bubble_json(d) ==
    [type |-> "bubble",
     hero |-> [type |-> "image",
               action |-> [type |-> "uri", uri |-> amazon_url(d)]],
     body |-> <<[type |-> "text", text |-> d[title]],
                [type |-> "text",
                 text |-> LEFT_QUOTE \o d[catchphrase] \o RIGHT_QUOTE],
                [type |-> "text", text |-> d[description]]>>,
     footer |-> [type |-> "button",
                 action |-> [type |-> "uri", uri |-> amazon_url(d)]]]

\* data.get(key, "") in place of data[key]: a missing key raises nothing.
CreateFlexLenient(data) ==
    LET d == [k \in Fields \cup DOMAIN data.items |->
                 IF k \in DOMAIN data.items THEN data.items[k] ELSE <<>>]
    IN  [raised |-> "none",
         message |-> [alt_text |-> ALT_PREFIX \o d[title],
                      contents |-> bubble_json(d)]]

create_flex_message(data) ==
    IF data.kind = "None"
    THEN [raised |-> "TypeError", message |-> NoMessage]
    ELSE IF FirstMissing(data.items) /= 0
    THEN [raised |-> "KeyError", message |-> NoMessage]
    ELSE [raised |-> "none",
          message |-> [alt_text |-> ALT_PREFIX \o data.items[title],
                       contents |-> bubble_json(data.items)]]

(***************************************************************************)
(* The inputs: webhook events, image contents, and the model's answers.    *)
(***************************************************************************)
\* The fixed reply texts of lines 184 and 193.
INSTRUCTION_TEXT == "<line 184: send me the cover of a book>"
FAILURE_TEXT == "<line 193: could not analyze, shoot from another angle>"

TextSendMessage(text) == [type |-> "text", text |-> text]
FlexSendMessage(m) ==
    [type |-> "flex", alt_text |-> m.alt_text, contents |-> m.contents]

\* What users write, what get_message_content finds behind a message id.
UserTexts == {"hello", "{\"title\": \"T\"}"}
ImageContents == {"cover", "corrupt"}

Events ==
    [type : {"text"}, text : UserTexts, image : {""}]
    \cup [type : {"image"}, text : {""}, image : ImageContents]
    \cup [type : {"sticker"}, text : {""}, image : {""}]

EventBatches == UNION {[1..n -> Events] : n \in 1..MaxEvents}

\* The five prompt strategies of lines 44-85.
NumStrategies == 5
strategies == 1..NumStrategies

\* Answers of the model that are no JSON object.
REFUSAL == <<"S", "o", "r", "r", "y", ".">>
TRAILING_COMMA ==
    <<"{", QUOTE_MARK>> \o title
    \o <<QUOTE_MARK, ":", " ", QUOTE_MARK, "T", QUOTE_MARK, ",", "}">>

ModelBodies ==
    {ModelJSON(ExampleBook, present) : present \in SUBSET Fields}
    \cup {REFUSAL, TRAILING_COMMA, <<>>}

\* The model answers bare, or inside a Markdown code fence.
ModelTexts ==
    ModelBodies
    \cup {FENCE_JSON \o <<"\n">> \o b \o <<"\n">> \o FENCE : b \in ModelBodies}
    \cup {<<" ">> \o FENCE \o b \o FENCE \o <<"\n">> : b \in ModelBodies}

\* Answers put together from code fence markers and what surrounds them.
Pieces ==
    {<<BT>>, <<BT, BT>>, FENCE, FENCE_JSON, <<"j", "s", "o", "n">>,
     <<"\n">>, <<" ">>, <<"{">>, <<"}">>}

RECURSIVE Concatenations(_)
Concatenations(n) ==
    IF n = 0 THEN {<<>>}
    ELSE LET shorter == Concatenations(n - 1)
         IN  shorter \cup {p \o t : p \in Pieces, t \in shorter}

PieceTexts == Concatenations(MaxPieces)

\* Answers that are the example book with another search keyword.
KeywordAlphabet == {"T", "2", " ", "&", "%", "=", "/", "#", "+", HIRAGANA_A}

Keywords == UNION {[1..n -> KeywordAlphabet] : n \in 0..MaxKeywordLen}

KeywordTexts ==
    {ModelJSON([ExampleBook EXCEPT ![search_keyword] = k], Fields) : k \in Keywords}

\* generate_content raises, or response.text is one of the texts.
ModelError == <<"<generate_content raised>">>
ModelAnswers == {ModelError} \cup ModelTexts

(***************************************************************************)
(* analyze_book_image (lines 37-121) as a function of the image and of     *)
(* what the model answers.  The result holds what the call returns (value) *)
(* or the exception that leaves it (raised), the line it logs, and what    *)
(* it did on the way: the text it took from the model, the cleaned text,   *)
(* and the calls it made.                                                  *)
(***************************************************************************)
\* A narrower clause, "except ValueError": only the parse error is caught.
ExceptValueError(kind) ==
    IF kind = "parse"
    THEN [raised |-> "none", value |-> None, logged |-> <<"AI Error: " \o kind>>]
    ELSE [raised |-> kind, value |-> None, logged |-> <<>>]

\* "except Exception as e" (lines 119-121): every failure is logged and
\* turned into None.
ExceptException(kind) ==
    [raised |-> "none", value |-> None, logged |-> <<"AI Error: " \o kind>>]

Failed(kind, text, cl, calls_made) ==
    LET e == ExceptException(kind)
    IN  [raised |-> e.raised, value |-> e.value, logged |-> e.logged,
         fail_kind |-> kind, response_text |-> text, cleaned |-> cl,
         called |-> calls_made]

analyze_book_image(bytes, answer) ==
    LET cl == Clean(answer)
        j == json_loads(cl)
    IN  IF bytes = "corrupt" THEN Failed("decode", <<>>, <<>>, <<>>)
        ELSE IF answer = ModelError
        THEN Failed("model", <<>>, <<>>, <<"generate_content">>)
        ELSE IF ~HasBrace(cl)
        THEN Failed("format", answer, cl, <<"generate_content">>)
        ELSE IF ~j.ok
        THEN Failed("parse", answer, cl, <<"generate_content", "json.loads">>)
        ELSE [raised |-> "none", value |-> Dict(j.value), logged |-> <<>>,
              fail_kind |-> "none", response_text |-> answer, cleaned |-> cl,
              called |-> <<"generate_content", "json.loads">>]

\* What analyze_book_image does on every input of the model.
analyses ==
    [bytes \in ImageContents |->
        [answer \in ModelAnswers \cup PieceTexts \cup KeywordTexts |->
            analyze_book_image(bytes, answer)]]

\* The test of line 192 left out.
FalsyNever(data) == FALSE

\* "not book_data" (line 192): None and the empty dict are false.
Falsy(data) == data.kind = "None" \/ data.items = EmptyDict

\* A handler that answers with what the user wrote.
TextReplyEcho(event) == TextSendMessage(event.text)

\* The text handle_text_message answers an event with (line 184).
TextReply(event) == TextSendMessage(INSTRUCTION_TEXT)

(***************************************************************************)
(* The state: one webhook request, from its arrival to its response.       *)
(***************************************************************************)
VARIABLES
    pc,             \* where the request is
    request,        \* the POST: body_utf8, signature_valid, events
    idx,            \* the event the handler loop is at; its reply token
    http_response,  \* what callback answers the POST with
    exception,      \* the exception that ended the request, "none" if none
    sent,           \* the reply_message calls made: token and message
    calls,          \* the other calls made: token and function
    error_log,      \* the lines logger.error wrote
    image_bytes,    \* handle_image_message's image_bytes
    fail_kind,      \* how analyze_book_image ended for the event at idx
    response_text,  \* response.text as the model gave it
    cleaned,        \* response_text after line 114
    book_data,      \* handle_image_message's book_data
    flex_message    \* handle_image_message's flex_message

vars == <<pc, request, idx, http_response, exception, sent, calls, error_log,
          image_bytes, fail_kind, response_text, cleaned, book_data,
          flex_message>>

NoResponse == [status_code |-> 0, body |-> ""]
HTTPException(code, detail) == [status_code |-> code, body |-> detail]
InternalServerError == [status_code |-> 500, body |-> "Internal Server Error"]

NoRequest == [body_utf8 |-> TRUE, signature_valid |-> TRUE, events |-> <<>>]

\* The handler's locals before it runs.
LocalsFresh ==
    /\ image_bytes' = ""
    /\ fail_kind' = "pending"
    /\ response_text' = <<>>
    /\ cleaned' = <<>>
    /\ book_data' = None
    /\ flex_message' = NoMessage

locals == <<image_bytes, fail_kind, response_text, cleaned, book_data,
            flex_message>>

Init ==
    /\ pc = "idle"
    /\ request = NoRequest
    /\ idx = 0
    /\ http_response = NoResponse
    /\ exception = "none"
    /\ sent = <<>>
    /\ calls = <<>>
    /\ error_log = <<>>
    /\ image_bytes = ""
    /\ fail_kind = "pending"
    /\ response_text = <<>>
    /\ cleaned = <<>>
    /\ book_data = None
    /\ flex_message = NoMessage

event == request.events[idx]

\* An exception no handler catches: FastAPI answers the request with 500.
Unhandled(exc) ==
    /\ pc' = "responded"
    /\ http_response' = InternalServerError
    /\ exception' = exc

\* line_bot_api.reply_message(event.reply_token, message): the call is made,
\* and either returns or raises LineBotApiError.
reply_message(message, delivered) ==
    /\ sent' = Append(sent, [token |-> idx, message |-> message])
    /\ IF delivered
       THEN pc' = "returned" /\ UNCHANGED <<http_response, exception>>
       ELSE Unhandled("LineBotApiError")

called(fn) == [token |-> idx, fn |-> fn]

(***************************************************************************)
(* callback (lines 172-180) and the handler loop of WebhookHandler.handle. *)
(***************************************************************************)
\* A POST arrives: the signature header and the body are read (174-175).
callback ==
    /\ pc = "idle"
    /\ \E utf8 \in BOOLEAN, valid \in BOOLEAN, batch \in EventBatches :
          request' = [body_utf8 |-> utf8, signature_valid |-> valid,
                      events |-> batch]
    /\ pc' = "handle"
    /\ UNCHANGED <<idx, http_response, exception, sent, calls, error_log, locals>>

\* body.decode("utf-8") raises UnicodeDecodeError, which callback does not
\* catch (line 177).
BodyDecodeError ==
    /\ pc = "handle"
    /\ ~request.body_utf8
    /\ Unhandled("UnicodeDecodeError")
    /\ UNCHANGED <<request, idx, sent, calls, error_log, locals>>

\* The signature is checked with no effect: the events are dispatched.
SignatureIgnored ==
    /\ pc = "handle"
    /\ request.body_utf8
    /\ ~request.signature_valid
    /\ pc' = "dispatch"
    /\ idx' = 1
    /\ UNCHANGED <<request, http_response, exception, sent, calls, error_log, locals>>

\* line_handler.handle raises InvalidSignatureError before any event is
\* looked at; callback answers 400 (lines 178-179).
InvalidSignature ==
    /\ pc = "handle"
    /\ request.body_utf8
    /\ ~request.signature_valid
    /\ pc' = "responded"
    /\ http_response' = HTTPException(400, "Invalid signature")
    /\ exception' = "InvalidSignatureError"
    /\ UNCHANGED <<request, idx, sent, calls, error_log, locals>>

\* The signature is valid: the handler loop starts at the first event.
SignatureValid ==
    /\ pc = "handle"
    /\ request.body_utf8
    /\ request.signature_valid
    /\ pc' = "dispatch"
    /\ idx' = 1
    /\ UNCHANGED <<request, http_response, exception, sent, calls, error_log, locals>>

\* Every event is handled: callback returns "OK" (line 180).
ReturnOK ==
    /\ pc = "dispatch"
    /\ idx > Len(request.events)
    /\ pc' = "responded"
    /\ http_response' = [status_code |-> 200, body |-> "OK"]
    /\ UNCHANGED <<request, idx, exception, sent, calls, error_log, locals>>

\* A message type no handler is registered for (lines 182, 186).
NoHandler ==
    /\ pc = "dispatch"
    /\ idx <= Len(request.events)
    /\ event.type \notin {"text", "image"}
    /\ pc' = "returned"
    /\ UNCHANGED <<request, idx, http_response, exception, sent, calls, error_log,
                   locals>>

\* The handler of events[idx] returned: the loop goes to the next event.
NextEvent ==
    /\ pc = "returned"
    /\ pc' = "dispatch"
    /\ idx' = idx + 1
    /\ LocalsFresh
    /\ UNCHANGED <<request, http_response, exception, sent, calls, error_log>>

(***************************************************************************)
(* handle_text_message (lines 182-184).                                    *)
(***************************************************************************)
handle_text_message ==
    /\ pc = "dispatch"
    /\ idx <= Len(request.events)
    /\ event.type = "text"
    /\ \E delivered \in BOOLEAN : reply_message(TextReply(event), delivered)
    /\ UNCHANGED <<request, idx, calls, error_log, locals>>

(***************************************************************************)
(* handle_image_message (lines 186-196), one action for each call it makes.*)
(***************************************************************************)
\* lines 188-190
get_message_content ==
    /\ pc = "dispatch"
    /\ idx <= Len(request.events)
    /\ event.type = "image"
    /\ calls' = Append(calls, called("get_message_content"))
    /\ \E fetched \in BOOLEAN :
          IF fetched
          THEN /\ image_bytes' = event.image
               /\ pc' = "analyze"
               /\ UNCHANGED <<http_response, exception>>
          ELSE /\ Unhandled("LineBotApiError")
               /\ UNCHANGED image_bytes
    /\ UNCHANGED <<request, idx, sent, error_log, fail_kind, response_text,
                   cleaned, book_data, flex_message>>

\* line 191: the whole of analyze_book_image, with the strategy random.choice
\* picks (line 88) and the answer of the model.  The strategy only words the
\* prompt: the answer is the model's to choose under every one of them.
Analyze(answers) ==
    /\ pc = "analyze"
    /\ \E answer \in answers :
          LET r == analyses[image_bytes][answer]
          IN  /\ fail_kind' = r.fail_kind
              /\ response_text' = r.response_text
              /\ cleaned' = r.cleaned
              /\ book_data' = r.value
              /\ error_log' = error_log
                    \o [i \in 1..Len(r.logged) |-> [token |-> idx, line |-> r.logged[i]]]
              /\ calls' = calls \o [i \in 1..Len(r.called) |-> called(r.called[i])]
              /\ IF r.raised = "none"
                 THEN pc' = "branch" /\ UNCHANGED <<http_response, exception>>
                 ELSE Unhandled(r.raised)
    /\ \E selected_strategy \in strategies : selected_strategy \in 1..NumStrategies
    /\ UNCHANGED <<request, idx, sent, image_bytes, flex_message>>

analyze == Analyze(ModelAnswers)

\* The failure branch returns without a reply.
ReturnSilently ==
    /\ pc = "branch"
    /\ Falsy(book_data)
    /\ pc' = "returned"
    /\ UNCHANGED <<request, idx, http_response, exception, sent, calls, error_log,
                   locals>>

\* lines 192-194
reply_failure ==
    /\ pc = "branch"
    /\ Falsy(book_data)
    /\ \E delivered \in BOOLEAN :
          reply_message(TextSendMessage(FAILURE_TEXT), delivered)
    /\ UNCHANGED <<request, idx, calls, error_log, locals>>

\* line 195
render ==
    /\ pc = "branch"
    /\ ~Falsy(book_data)
    /\ calls' = Append(calls, called("create_flex_message"))
    /\ LET r == create_flex_message(book_data)
       IN  IF r.raised = "none"
           THEN /\ flex_message' = r.message
                /\ pc' = "reply"
                /\ UNCHANGED <<http_response, exception>>
           ELSE /\ Unhandled(r.raised)
                /\ UNCHANGED flex_message
    /\ UNCHANGED <<request, idx, sent, error_log, image_bytes, fail_kind,
                   response_text, cleaned, book_data>>

\* line 196
reply_flex ==
    /\ pc = "reply"
    /\ \E delivered \in BOOLEAN :
          reply_message(FlexSendMessage(flex_message), delivered)
    /\ UNCHANGED <<request, idx, calls, error_log, locals>>

Next ==
    \/ callback
    \/ BodyDecodeError
    \/ InvalidSignature
    \/ SignatureValid
    \/ NoHandler
    \/ NextEvent
    \/ ReturnOK
    \/ handle_text_message
    \/ get_message_content
    \/ analyze
    \/ reply_failure
    \/ render
    \/ reply_flex

Spec == Init /\ [][Next]_vars

(***************************************************************************)
(* Two specifications of handle_image_message alone, each over a wider set *)
(* of answers of the model.  Both start where a delivery of one image      *)
(* event has passed the signature check and get_message_content returned.  *)
(***************************************************************************)
InitImage ==
    /\ pc = "analyze"
    /\ request = [body_utf8 |-> TRUE, signature_valid |-> TRUE,
                  events |-> <<[type |-> "image", text |-> "",
                                image |-> "cover"]>>]
    /\ idx = 1
    /\ http_response = NoResponse
    /\ exception = "none"
    /\ sent = <<>>
    /\ calls = <<[token |-> 1, fn |-> "get_message_content"]>>
    /\ error_log = <<>>
    /\ image_bytes = "cover"
    /\ fail_kind = "pending"
    /\ response_text = <<>>
    /\ cleaned = <<>>
    /\ book_data = None
    /\ flex_message = NoMessage

\* The model answers with fence markers in any arrangement.
analyze_pieces == Analyze(PieceTexts)

NextClean == analyze_pieces \/ reply_failure

SpecClean == InitImage /\ [][NextClean]_vars

\* The model answers with the example book under any search keyword.
analyze_keywords == Analyze(KeywordTexts)

NextFlex == analyze_keywords \/ render \/ reply_flex

SpecFlex == InitImage /\ [][NextFlex]_vars

(***************************************************************************)
(* Reading a link as its receiver does: the query of the URL, split into   *)
(* its parameters, and urllib.parse.unquote of a value.                    *)
(***************************************************************************)
LowerHexDigits ==
    <<"0", "1", "2", "3", "4", "5", "6", "7", "8", "9", "a", "b", "c", "d",
      "e", "f">>

IsHex(c) == \E i \in 1..16 : HexDigits[i] = c \/ LowerHexDigits[i] = c

HexValue(c) == (CHOOSE i \in 1..16 : HexDigits[i] = c \/ LowerHexDigits[i] = c) - 1

\* The text as bytes (%XX) and characters.
RECURSIVE PercentDecode(_)
PercentDecode(s) ==
    IF s = <<>> THEN <<>>
    ELSE IF Head(s) = "%" /\ Len(s) >= 3 /\ IsHex(s[2]) /\ IsHex(s[3])
    THEN <<[byte |-> TRUE, v |-> 16 * HexValue(s[2]) + HexValue(s[3]), c |-> ""]>>
         \o PercentDecode(SubSeq(s, 4, Len(s)))
    ELSE <<[byte |-> FALSE, v |-> 0, c |-> Head(s)]>> \o PercentDecode(Tail(s))

Chr(cp) ==
    IF \E c \in DOMAIN CodePoint : CodePoint[c] = cp
    THEN CHOOSE c \in DOMAIN CodePoint : CodePoint[c] = cp
    ELSE REPLACEMENT

IsContinuation(items, i) ==
    i <= Len(items) /\ items[i].byte /\ items[i].v >= 128 /\ items[i].v < 192

\* The bytes decoded as UTF-8, an invalid byte replaced (errors="replace").
RECURSIVE Utf8Decode(_)
Utf8Decode(items) ==
    IF items = <<>> THEN <<>>
    ELSE LET h == Head(items)
         IN  IF ~h.byte THEN <<h.c>> \o Utf8Decode(Tail(items))
             ELSE IF h.v < 128 THEN <<Chr(h.v)>> \o Utf8Decode(Tail(items))
             ELSE IF h.v >= 192 /\ h.v < 224 /\ IsContinuation(items, 2)
             THEN <<Chr((h.v - 192) * 64 + (items[2].v - 128))>>
                  \o Utf8Decode(SubSeq(items, 3, Len(items)))
             ELSE IF h.v >= 224 /\ h.v < 240 /\ IsContinuation(items, 2)
                     /\ IsContinuation(items, 3)
             THEN <<Chr((h.v - 224) * 4096 + (items[2].v - 128) * 64
                        + (items[3].v - 128))>>
                  \o Utf8Decode(SubSeq(items, 4, Len(items)))
             ELSE <<REPLACEMENT>> \o Utf8Decode(Tail(items))

unquote(s) == Utf8Decode(PercentDecode(s))

\* The first place of the character ch in s, 0 if it has none.
IndexOf(s, ch) ==
    IF \E i \in 1..Len(s) : s[i] = ch
    THEN Min({i \in 1..Len(s) : s[i] = ch})
    ELSE 0

\* What follows the first "?" of the URL, up to a "#".
QueryString(url) ==
    LET q == IndexOf(url, "?")
        rest == IF q = 0 THEN <<>> ELSE SubSeq(url, q + 1, Len(url))
        h == IndexOf(rest, "#")
    IN  IF h = 0 THEN rest ELSE SubSeq(rest, 1, h - 1)

RECURSIVE SplitParams(_)
SplitParams(q) ==
    LET a == IndexOf(q, "&")
    IN  IF a = 0 THEN <<q>>
        ELSE <<SubSeq(q, 1, a - 1)>> \o SplitParams(SubSeq(q, a + 1, Len(q)))

ParamName(p) ==
    IF IndexOf(p, "=") = 0 THEN p ELSE SubSeq(p, 1, IndexOf(p, "=") - 1)

ParamRaw(p) ==
    IF IndexOf(p, "=") = 0 THEN <<>> ELSE SubSeq(p, IndexOf(p, "=") + 1, Len(p))

Absent == <<"<absent>">>

\* The percent-decoded value of the first parameter of that name.
QueryParam(url, name) ==
    LET ps == SplitParams(QueryString(url))
        having == {i \in 1..Len(ps) : ParamName(ps[i]) = name}
    IN  IF having = {} THEN Absent ELSE unquote(ParamRaw(ps[Min(having)]))

(***************************************************************************)
(* What the claims speak of.                                               *)
(***************************************************************************)
\* The reply_message calls made with the token t.
Replies(t) == SelectSeq(sent, LAMBDA m : m.token = t)

\* How often fn was called while the event of token t was handled.
CallCount(t, fn) ==
    Cardinality({i \in 1..Len(calls) : calls[i] = [token |-> t, fn |-> fn]})

\* analyze_book_image has run for the event at idx.
Analyzed == fail_kind /= "pending"

\* The handler of the event t has returned.
Completed(t) == t < idx \/ (t = idx /\ pc = "returned")

NoBrace(text) == \A i \in 1..Len(text) : text[i] /= "{"

(***************************************************************************)
(* The claims.                                                             *)
(***************************************************************************)
\* C1: when analyze_book_image returned None for the image event at hand,
\* create_flex_message is not called for that event, every reply made with
\* its token is the fixed failure text, and once the handler is past the test
\* of line 192 that reply has been made.
C1_FailureReply ==
    (Analyzed /\ book_data = None) =>
        /\ CallCount(idx, "create_flex_message") = 0
        /\ \A i \in 1..Len(sent) :
              sent[i].token = idx => sent[i].message = TextSendMessage(FAILURE_TEXT)
        /\ pc /= "branch" => Len(Replies(idx)) = 1

C1_Witness ==
    /\ fail_kind = "format"
    /\ book_data = None
    /\ pc = "returned"
    /\ Replies(idx) = <<[token |-> idx, message |-> TextSendMessage(FAILURE_TEXT)]>>

\* C2: for a request whose signature is not valid, neither reply_message nor
\* get_message_content nor the model is called, no event reaches a handler,
\* and when the signature check fails (the body having decoded as UTF-8, so
\* that the check runs) the response is status 400 with the detail
\* "Invalid signature".
C2_InvalidSignature ==
    (pc /= "idle" /\ ~request.signature_valid) =>
        /\ pc \in {"handle", "responded"}
        /\ sent = <<>>
        /\ calls = <<>>
        /\ (pc = "responded" /\ request.body_utf8) =>
              http_response = [status_code |-> 400, body |-> "Invalid signature"]

C2_Witness ==
    /\ ~request.signature_valid
    /\ \E i \in 1..Len(request.events) : request.events[i].type = "image"
    /\ \E i \in 1..Len(request.events) : request.events[i].type = "text"
    /\ pc = "responded"
    /\ http_response.status_code = 400

\* C3: every reply to a text event is the one instructional text, whatever the
\* user wrote; a text event that was handled got it, and nothing of the image
\* path (get_message_content, the model, json.loads, create_flex_message) is
\* called for a text event.
C3_TextReply ==
    /\ \A i \in 1..Len(sent) :
          request.events[sent[i].token].type = "text"
              => sent[i].message = TextSendMessage(INSTRUCTION_TEXT)
    /\ \A i \in 1..Len(calls) : request.events[calls[i].token].type /= "text"
    /\ \A t \in 1..Len(request.events) :
          (request.events[t].type = "text" /\ Completed(t)) => Len(Replies(t)) = 1

C3_Witness ==
    /\ Len(request.events) = 2
    /\ request.events[1].type = "text"
    /\ request.events[2].type = "text"
    /\ request.events[1].text /= request.events[2].text
    /\ Len(sent) = 2
    /\ sent[1].message = sent[2].message
    /\ http_response.status_code = 200

\* C4 (as claimed): a parsed model output that lacks one of the five fields
\* makes analyze_book_image return None, and the user gets the failure text.
C4_MissingFieldFails ==
    (/\ Analyzed
     /\ fail_kind \notin {"decode", "model"}
     /\ json_loads(cleaned).ok
     /\ ~(Fields \subseteq DOMAIN json_loads(cleaned).value)) =>
        /\ book_data = None
        /\ Completed(idx) =>
              Replies(idx) = <<[token |-> idx,
                                message |-> TextSendMessage(FAILURE_TEXT)]>>

\* C5: no reply token is used for more than one reply_message call, and when
\* the handler of a text or image event has returned, exactly one call was
\* made with its token.
C5_ReplyOnce ==
    \A t \in 1..Len(request.events) :
        /\ Len(Replies(t)) <= 1
        /\ (Completed(t) /\ request.events[t].type \in {"text", "image"})
              => Len(Replies(t)) = 1

C5_Witness ==
    /\ idx = 2
    /\ pc = "returned"
    /\ request.events[1].type = "image"
    /\ request.events[2].type = "image"
    /\ Len(sent) = 2
    /\ sent[1].message.type = "flex"
    /\ sent[2].message = TextSendMessage(FAILURE_TEXT)

\* The link carries the affiliate tag and the keyword.
LinkOf(uri, keyword) ==
    /\ QueryParam(uri, <<"t", "a", "g">>) = AMAZON_ASSOCIATE_TAG
    /\ QueryParam(uri, <<"k">>) = keyword

\* C6: in the card made from a record with every field, the link of the hero
\* action and of the footer button has the parameter tag equal to the
\* affiliate tag and a parameter k that percent-decodes to search_keyword.
C6_PurchaseLink ==
    (flex_message /= NoMessage /\ Fields \subseteq DOMAIN book_data.items) =>
        /\ LinkOf(flex_message.contents.hero.action.uri,
                  book_data.items[search_keyword])
        /\ LinkOf(flex_message.contents.footer.action.uri,
                  book_data.items[search_keyword])

C6_Witness ==
    /\ pc = "returned"
    /\ Len(sent) = 1
    /\ sent[1].message.type = "flex"
    /\ book_data.items[search_keyword] = <<"&", HIRAGANA_A>>
    /\ sent[1].message.contents.footer.action.uri =
          SEARCH_URL \o <<"%", "2", "6", "%", "E", "3", "%", "8", "1", "%", "8", "2">>
          \o TAG_PARAM \o AMAZON_ASSOCIATE_TAG

\* The ways analyze_book_image fails.
FailKinds == {"decode", "model", "format", "parse"}

\* C7: however analyze_book_image fails, it returns None and logs a line for
\* the event; the failure leaves it as a value, never as an exception.
C7_FailuresCollapse ==
    (Analyzed /\ fail_kind /= "none") =>
        /\ fail_kind \in FailKinds
        /\ book_data = None
        /\ exception \notin FailKinds
        /\ pc = "responded" => exception = "LineBotApiError"
        /\ Len(SelectSeq(error_log, LAMBDA l : l.token = idx)) = 1

C7_Witness ==
    /\ Len(error_log) = 2
    /\ error_log[1].line = "AI Error: decode"
    /\ error_log[2].line = "AI Error: parse"
    /\ book_data = None
    /\ pc = "branch"

\* C8: a cleaned text with no "{" makes analyze_book_image return None, and
\* json.loads is not called.
C8_NoBraceNoParse ==
    (Analyzed /\ fail_kind \notin {"decode", "model"} /\ NoBrace(cleaned)) =>
        /\ book_data = None
        /\ fail_kind = "format"
        /\ CallCount(idx, "json.loads") = 0

C8_Witness ==
    /\ fail_kind = "format"
    /\ cleaned = REFUSAL
    /\ response_text /= cleaned
    /\ CallCount(idx, "generate_content") = 1
    /\ pc = "branch"

\* C9: the cleaned text is a fixed point of the cleanup.
C9_CleanupIdempotent ==
    (Analyzed /\ fail_kind \notin {"decode", "model"}) => Clean(cleaned) = cleaned

C9_Witness ==
    /\ Analyzed
    /\ response_text = FENCE_JSON \o <<"{">> \o FENCE
    /\ cleaned = <<"{">>

\* C10: when the record is not empty and lacks a key create_flex_message
\* reads, the call ends the request with KeyError: no reply is made with the
\* event's token and the response is neither "OK" nor the 400 of a bad
\* signature.
C10_RenderKeyError ==
    (/\ Analyzed
     /\ book_data.kind = "dict"
     /\ book_data.items /= EmptyDict
     /\ ~({search_keyword, title, catchphrase, description}
              \subseteq DOMAIN book_data.items)
     /\ pc /= "branch") =>
        /\ pc = "responded"
        /\ exception = "KeyError"
        /\ http_response.status_code \notin {200, 400}
        /\ Replies(idx) = <<>>
        /\ CallCount(idx, "create_flex_message") = 1

C10_Witness ==
    /\ idx = 2
    /\ exception = "KeyError"
    /\ DOMAIN book_data.items = Fields \ {description}
    /\ Len(sent) = 1
    /\ sent[1].token = 1

====
